---------------------------- MODULE Spec2Model ----------------------------
(***************************************************************************)
(* zinc64: the VIC-II register bank (src/src/video/vic.rs) and the         *)
(* Datassette tape drive (src/src/device/datassette.rs) as state machines. *)
(*                                                                         *)
(* VicSpec drives Vic::read / Vic::write; DatassetteSpec drives the        *)
(* Datassette's public operations and the CPU's writes to the motor bit.   *)
(***************************************************************************)
EXTENDS Integers, Sequences, FiniteSets, TLC

(***************************************************************************)
(* Bounds of the exploration.                                              *)
(***************************************************************************)
\* register writes explored from Vic::new
MaxWrites == 2

\* the longest pulse, in cycles, on the tapes attached
MaxPulse == 3

\* the most pulses on a tape attached
MaxTapeLen == 2

\* the longest of the short pulses built on their own
MaxLength == 13

\* advance() calls followed on one pulse
MaxAdvances == MaxLength + 1

(***************************************************************************)
(* Fixed-width integer arithmetic (u8 / u16 / u32 of the Rust source).     *)
(***************************************************************************)
Pow2(n) == 2 ^ n

Byte == 0 .. 255

\* a & b on w-bit operands
RECURSIVE And(_, _, _)
And(a, b, w) ==
    IF w = 0 THEN 0
    ELSE ((a % 2) * (b % 2)) + 2 * And(a \div 2, b \div 2, w - 1)

\* a | b on w-bit operands
RECURSIVE Or(_, _, _)
Or(a, b, w) ==
    IF w = 0 THEN 0
    ELSE (IF (a % 2) + (b % 2) > 0 THEN 1 ELSE 0) + 2 * Or(a \div 2, b \div 2, w - 1)

\* !mask on w-bit operands
Not(a, w) == (Pow2(w) - 1) - a

\* a >> n
Shr(a, n) == a \div Pow2(n)

\* a << n on a w-bit operand: the bits shifted out are lost
Shl(a, n, w) == (a * Pow2(n)) % Pow2(w)

\* `as u8`
AsU8(a) == a % 256

(***************************************************************************)
(* util::bit helpers used by vic.rs.                                       *)
(***************************************************************************)
bit_test(value, bit) == And(value, Shl(1, bit, 8), 8) # 0

bit_val(value, bit) == IF And(value, Shl(1, bit, 8), 8) # 0 THEN 1 ELSE 0

bit_val16(value, bit) == IF And(value, Shl(1, bit, 16), 16) # 0 THEN 1 ELSE 0

bit_set(bit, enabled) == IF enabled THEN Shl(1, bit, 8) ELSE 0

bit_update(value, bit, enabled) ==
    IF enabled THEN Or(value, Shl(1, bit, 8), 8)
    ELSE And(value, Not(Shl(1, bit, 8), 8), 8)

bit_update16(value, bit, enabled) ==
    IF enabled THEN Or(value, Shl(1, bit, 16), 16)
    ELSE And(value, Not(Shl(1, bit, 16), 16), 16)


(***************************************************************************)
(* VIC-II register bank: src/src/video/vic.rs                              *)
(***************************************************************************)
\* enum Reg: the register addresses dispatched on by read and write
MX8 == 16
CR1 == 17
RASTER == 18
LPX == 19
LPY == 20
ME == 21
CR2 == 22
MYE == 23
MEMPTR == 24
IRR == 25
IMR == 26
MDP == 27
MMC == 28
MXE == 29
MM == 30
MD == 31
EC == 32
B0C == 33
B3C == 36
MM0 == 37
MM1 == 38
M0C == 39
M7C == 46
IGNORE == 255

\* the value standing for a panic!() of the source
Panic == 0 - 1

\* Mode::from: the eight variants are their own discriminants, anything else panics
ModeFrom(mode) == IF mode \in 0 .. 7 THEN mode ELSE Panic

\* Mode::value
ModeValue(mode) == mode

\* Reg::from with 0x2f..=0x3f aliasing the first registers
RegFrom_Alias(reg) ==
    IF reg \in 0 .. 46 THEN reg
    ELSE IF reg \in 47 .. 63 THEN reg - 47
    ELSE 0 - 1

\* Reg::from: 0x00..=0x2e are live, 0x2f..=0x3f map to IGNORE, anything else panics
RegFrom(reg) ==
    IF reg \in 0 .. 46 THEN reg
    ELSE IF reg \in 47 .. 63 THEN IGNORE
    ELSE Panic

\* Sprite::new
SpriteNew ==
    [enabled |-> FALSE, x |-> 0, y |-> 0, color |-> 0, expand_x |-> FALSE,
     expand_y |-> FALSE, multicolor |-> FALSE, priority |-> TRUE]

\* Vic::new (the dependencies config, cpu, mem, color_ram and rt are never
\* touched by read or write)
VicNew ==
    [mode |-> 0, enabled |-> TRUE, rsel |-> TRUE, csel |-> TRUE,
     scroll_x |-> 0, scroll_y |-> 3, irq_enable |-> 0, irq_status |-> 0,
     raster |-> 256, raster_compare |-> 0, video_counter |-> 0,
     char_base |-> 4096, video_matrix |-> 1024,
     border_color |-> 14,
     background_color |-> [i \in 0 .. 3 |-> IF i = 0 THEN 6 ELSE 0],
     sprites |-> [n \in 0 .. 7 |-> SpriteNew],
     sprite_multicolor |-> [i \in 0 .. 1 |-> 0],
     light_pen_pos |-> [i \in 0 .. 1 |-> 0]]

\* PackBits that stops short of sprite 0
RECURSIVE PackBits_FromOne(_, _)
PackBits_FromOne(flag, n) ==
    IF n < 1 THEN 0 ELSE Or(bit_set(n, flag[n]), PackBits_FromOne(flag, n - 1), 8)

\* m0 | m1 | ... | m7 of the bit-packed sprite registers, flag(n) the n-th bool
RECURSIVE PackBits(_, _)
PackBits(flag, n) ==
    IF n < 0 THEN 0 ELSE Or(bit_set(n, flag[n]), PackBits(flag, n - 1), 8)

\* the MX8 read: bit_val16(sprites[n].x, 8) << n, or-ed over the sprites
RECURSIVE PackX8(_, _)
PackX8(v, n) ==
    IF n < 0 THEN 0
    ELSE Or(Shl(bit_val16(v.sprites[n].x, 8), n, 8), PackX8(v, n - 1), 8)

\* the MEMPTR read. Rust binds >> tighter than &, so
\* `self.video_matrix & 0x3c00 >> 10` is video_matrix & (0x3c00 >> 10)
ReadMemptr(v) ==
    LET vm == Shl(AsU8(And(v.video_matrix, Shr(15360, 10), 16)), 4, 8)
        cb == Shl(AsU8(And(v.char_base, Shr(14336, 11), 16)), 1, 8)
    IN  Or(Or(vm, cb, 8), 1, 8)

\* the CR1 read
ReadCr1(v) ==
    LET rst8 == Shl(bit_val16(v.raster, 8), 7, 8)
        ecm == Shl(bit_val(ModeValue(v.mode), 2), 6, 8)
        bmm == Shl(bit_val(ModeValue(v.mode), 1), 5, 8)
        den == bit_set(4, v.enabled)
        rsel == bit_set(3, v.rsel)
        yscroll == And(v.scroll_y, 7, 8)
    IN  Or(Or(Or(Or(Or(rst8, ecm, 8), bmm, 8), den, 8), rsel, 8), yscroll, 8)

\* ReadCr2 without the two top bits forced to 1
ReadCr2_NoTop(v) ==
    LET res == Shl(1, 5, 8)
        mcm == Shl(bit_val(ModeValue(v.mode), 0), 4, 8)
        csel == bit_set(3, v.csel)
        yscroll == And(v.scroll_x, 7, 8)
    IN  Or(Or(Or(res, mcm, 8), csel, 8), yscroll, 8)

\* the CR2 read
ReadCr2(v) ==
    LET res == Shl(1, 5, 8)
        mcm == Shl(bit_val(ModeValue(v.mode), 0), 4, 8)
        csel == bit_set(3, v.csel)
        yscroll == And(v.scroll_x, 7, 8)
    IN  Or(Or(Or(Or(res, mcm, 8), csel, 8), yscroll, 8), 192, 8)

\* the colour register reads: value | 0xf0
ReadColor(v, r) ==
    IF r = EC THEN Or(v.border_color, 240, 8)
    ELSE IF r \in B0C .. B3C THEN Or(v.background_color[r - B0C], 240, 8)
    ELSE IF r \in MM0 .. MM1 THEN Or(v.sprite_multicolor[r - MM0], 240, 8)
    ELSE Or(v.sprites[r - M0C].color, 240, 8)

\* Vic::read: the byte returned (no field is assigned by any arm)
VicRead(v, reg) ==
    LET r == RegFrom(reg) IN
    IF r \in 0 .. 15 THEN
        (IF r % 2 = 0 THEN AsU8(And(v.sprites[r \div 2].x, 255, 16))
         ELSE v.sprites[r \div 2].y)
    ELSE IF r = MX8 THEN PackX8(v, 7)
    ELSE IF r = CR1 THEN ReadCr1(v)
    ELSE IF r = RASTER THEN AsU8(And(v.raster, 255, 16))
    ELSE IF r = LPX THEN v.light_pen_pos[0]
    ELSE IF r = LPY THEN v.light_pen_pos[1]
    ELSE IF r = ME THEN PackBits([n \in 0 .. 7 |-> v.sprites[n].enabled], 7)
    ELSE IF r = CR2 THEN ReadCr2(v)
    ELSE IF r = MYE THEN PackBits([n \in 0 .. 7 |-> v.sprites[n].expand_y], 7)
    ELSE IF r = MEMPTR THEN ReadMemptr(v)
    ELSE IF r = IRR THEN v.irq_status
    ELSE IF r = IMR THEN v.irq_enable
    ELSE IF r = MDP THEN PackBits([n \in 0 .. 7 |-> v.sprites[n].priority], 7)
    ELSE IF r = MMC THEN PackBits([n \in 0 .. 7 |-> v.sprites[n].multicolor], 7)
    ELSE IF r = MXE THEN PackBits([n \in 0 .. 7 |-> v.sprites[n].expand_x], 7)
    ELSE IF r = MM THEN 255
    ELSE IF r = MD THEN 255
    ELSE IF r \in EC .. M7C THEN ReadColor(v, r)
    ELSE IF r = IGNORE THEN 255
    ELSE Panic

\* WriteMx8 with every sprite taking bit 0 of the value
WriteMx8_Bit0(v, value) ==
    [v EXCEPT !.sprites =
        [n \in 0 .. 7 |->
            [v.sprites[n] EXCEPT !.x = bit_update16(v.sprites[n].x, 8, bit_test(value, 0))]]]

\* the MX8 write: bit 8 of every sprite's x from bit n of the value
WriteMx8(v, value) ==
    [v EXCEPT !.sprites =
        [n \in 0 .. 7 |->
            [v.sprites[n] EXCEPT !.x = bit_update16(v.sprites[n].x, 8, bit_test(value, n))]]]

\* WriteCr1 that rebuilds the mode from the ECM bit alone
WriteCr1_DropsMcm(v, value) ==
    [v EXCEPT !.raster_compare = bit_update16(v.raster_compare, 8, bit_test(value, 7)),
              !.mode = ModeFrom(bit_set(2, bit_test(value, 6))),
              !.enabled = bit_test(value, 4),
              !.rsel = bit_test(value, 3),
              !.scroll_y = And(value, 7, 8)]

\* WriteCr1 with bit 7 loaded into the raster counter
WriteCr1_Raster(v, value) ==
    LET mode == bit_update(ModeValue(v.mode), 2, bit_test(value, 6))
    IN  [v EXCEPT !.raster = bit_update16(v.raster, 8, bit_test(value, 7)),
                  !.mode = ModeFrom(mode),
                  !.enabled = bit_test(value, 4),
                  !.rsel = bit_test(value, 3),
                  !.scroll_y = And(value, 7, 8)]

\* the CR1 write. mode2 carries the BMM bit but Mode::from is handed `mode`
WriteCr1(v, value) ==
    LET mode == bit_update(ModeValue(v.mode), 2, bit_test(value, 6))
        mode2 == bit_update(mode, 1, bit_test(value, 5))
    IN  [v EXCEPT !.raster_compare = bit_update16(v.raster_compare, 8, bit_test(value, 7)),
                  !.mode = ModeFrom(mode),
                  !.enabled = bit_test(value, 4),
                  !.rsel = bit_test(value, 3),
                  !.scroll_y = And(value, 7, 8)]

\* WriteCr2 with the MCM bit put at mode bit 3
WriteCr2_Bit3(v, value) ==
    LET mode == bit_update(ModeValue(v.mode), 3, bit_test(value, 4))
    IN  [v EXCEPT !.mode = ModeFrom(mode),
                  !.csel = bit_test(value, 3),
                  !.scroll_x = And(value, 7, 8)]

\* the CR2 write
WriteCr2(v, value) ==
    LET mode == bit_update(ModeValue(v.mode), 0, bit_test(value, 4))
    IN  [v EXCEPT !.mode = ModeFrom(mode),
                  !.csel = bit_test(value, 3),
                  !.scroll_x = And(value, 7, 8)]

\* the MEMPTR write
WriteMemptr(v, value) ==
    [v EXCEPT !.video_matrix = Shl(Shr(And(value, 240, 8), 4), 10, 16),
              !.char_base = Shl(Shr(And(value, 15, 8), 1), 11, 16)]

\* WriteColor with the value stored unmasked
WriteColor_NoMask(v, r, value) ==
    IF r = EC THEN [v EXCEPT !.border_color = value]
    ELSE IF r \in B0C .. B3C THEN [v EXCEPT !.background_color[r - B0C] = value]
    ELSE IF r \in MM0 .. MM1 THEN [v EXCEPT !.sprite_multicolor[r - MM0] = value]
    ELSE [v EXCEPT !.sprites[r - M0C].color = value]

\* the colour register writes: value & 0x0f
WriteColor(v, r, value) ==
    IF r = EC THEN [v EXCEPT !.border_color = And(value, 15, 8)]
    ELSE IF r \in B0C .. B3C THEN [v EXCEPT !.background_color[r - B0C] = And(value, 15, 8)]
    ELSE IF r \in MM0 .. MM1 THEN [v EXCEPT !.sprite_multicolor[r - MM0] = And(value, 15, 8)]
    ELSE [v EXCEPT !.sprites[r - M0C].color = And(value, 15, 8)]

\* Vic::write: the register bank after the call
VicWrite(v, reg, value) ==
    LET r == RegFrom(reg) IN
    IF r \in 0 .. 15 THEN
        (IF r % 2 = 0
         THEN [v EXCEPT !.sprites[r \div 2].x = Or(And(v.sprites[r \div 2].x, 65280, 16), value, 16)]
         ELSE [v EXCEPT !.sprites[r \div 2].y = value])
    ELSE IF r = MX8 THEN WriteMx8(v, value)
    ELSE IF r = CR1 THEN WriteCr1(v, value)
    ELSE IF r = RASTER THEN
        [v EXCEPT !.raster_compare = Or(And(v.raster_compare, 65280, 16), value, 16)]
    ELSE IF r = LPX THEN [v EXCEPT !.light_pen_pos[0] = value]
    ELSE IF r = LPY THEN [v EXCEPT !.light_pen_pos[1] = value]
    ELSE IF r = ME THEN
        [v EXCEPT !.sprites = [n \in 0 .. 7 |-> [v.sprites[n] EXCEPT !.enabled = bit_test(value, n)]]]
    ELSE IF r = CR2 THEN WriteCr2(v, value)
    ELSE IF r = MYE THEN
        [v EXCEPT !.sprites = [n \in 0 .. 7 |-> [v.sprites[n] EXCEPT !.expand_y = bit_test(value, n)]]]
    ELSE IF r = MEMPTR THEN WriteMemptr(v, value)
    ELSE IF r = IRR THEN [v EXCEPT !.irq_status = value]
    ELSE IF r = IMR THEN [v EXCEPT !.irq_enable = value]
    ELSE IF r = MDP THEN
        [v EXCEPT !.sprites = [n \in 0 .. 7 |-> [v.sprites[n] EXCEPT !.priority = bit_test(value, n)]]]
    ELSE IF r = MMC THEN
        [v EXCEPT !.sprites = [n \in 0 .. 7 |-> [v.sprites[n] EXCEPT !.multicolor = bit_test(value, n)]]]
    ELSE IF r = MXE THEN
        [v EXCEPT !.sprites = [n \in 0 .. 7 |-> [v.sprites[n] EXCEPT !.expand_x = bit_test(value, n)]]]
    ELSE IF r = MM THEN v
    ELSE IF r = MD THEN v
    ELSE IF r \in EC .. M7C THEN WriteColor(v, r, value)
    ELSE v

\* whether Vic::write(reg, value) ends in a panic: Reg::from or Mode::from
WritePanics(v, reg, value) ==
    \/ RegFrom(reg) = Panic
    \/ VicWrite(v, reg, value).mode = Panic

(***************************************************************************)
(* The inputs the exploration draws.                                       *)
(***************************************************************************)
\* register addresses written and read: M3X, M4X, MX8, CR1, RASTER, ME, CR2,
\* MEMPTR, MM, EC, M3C and the first ignored address
RegInputs == {6, 8, MX8, CR1, RASTER, ME, CR2, MEMPTR, MM, EC, M0C + 3, 47}

\* byte patterns written, 0xa5 and 0x5a: between them every bit is written
\* as 0 and as 1
ByteInputs == {165, 90}

WriteInputs == RegInputs \X ByteInputs

\* the empty map
NoShadow == [r \in {} |-> 0]

NoWrite == [reg |-> Panic, value |-> Panic]

NoRead == [reg |-> Panic, value |-> Panic]

(***************************************************************************)
(* Datassette: src/src/device/datassette.rs                                *)
(***************************************************************************)
DUTY_CYCLE == 50

\* enum ControlPort
CassetteSwitch == 4
CassetteMotor == 5

\* the largest length whose product with 100 - DUTY_CYCLE fits u32:
\* (2^32 - 1) / 50
LastExactLength == 85899345

\* the u32 product a * b for b <= 100, as the two 16-bit halves of its low 32
\* bits (2^32 itself is beyond the integers of the checker), and whether the
\* true product passed 2^32 - 1
MulU32(a, b) ==
    LET lo == (a % 65536) * b
        hi == (a \div 65536) * b + lo \div 65536
    IN  [hi |-> hi % 65536, lo |-> lo % 65536, overflow |-> hi >= 65536]

\* the u32 quotient p / d of a product held in halves
DivU32(p, d) == (p.hi \div d) * 65536 + ((p.hi % d) * 65536 + p.lo) \div d

\* Pulse::new in a build without overflow checks: length * (100 - duty) wraps
\* at 2^32
PulseNew(length, duty) ==
    [low_cycles |-> DivU32(MulU32(length, 100 - duty), 100),
     remaining_cycles |-> length]

\* Pulse::new in a build with overflow checks panics when the product overflows
PulseNewOverflows(length, duty) == MulU32(length, 100 - duty).overflow

\* Pulse::is_done
PulseIsDone(pulse) == pulse.remaining_cycles = 0

\* advance that does not count the cycle
PulseAdvance_Stuck(pulse) ==
    IF pulse.low_cycles = 0
    THEN pulse
    ELSE [pulse EXCEPT !.low_cycles = pulse.low_cycles - 1]

\* advance that never leaves the low phase
PulseAdvance_KeepLow(pulse) ==
    [pulse EXCEPT !.remaining_cycles = pulse.remaining_cycles - 1]

\* Pulse::advance: the pulse after the call
PulseAdvance(pulse) ==
    IF pulse.low_cycles = 0
    THEN [pulse EXCEPT !.remaining_cycles = pulse.remaining_cycles - 1]
    ELSE [pulse EXCEPT !.remaining_cycles = pulse.remaining_cycles - 1,
                       !.low_cycles = pulse.low_cycles - 1]

\* advance that returns low for the high part of the pulse and high for the low part
PulseLevel_Inverted(pulse) == pulse.low_cycles # 0

\* Pulse::advance: the level returned
PulseLevel(pulse) == pulse.low_cycles = 0

\* Tape: a positionable sequence of pulse lengths. tape: Option<Box<Tape>>
NoTape == [attached |-> FALSE, pulses |-> <<>>, pos |-> 0]

\* a tape handed to attach(), at its start
TapeOf(pulses) == [attached |-> TRUE, pulses |-> pulses, pos |-> 0]

\* Tape::read_pulse: Some(length), or None (Panic) at the end of the tape
TapeReadPulse(t) ==
    IF t.pos < Len(t.pulses) THEN t.pulses[t.pos + 1] ELSE Panic

\* Tape::read_pulse: the tape after the call
TapeAfterRead(t) ==
    IF t.pos < Len(t.pulses) THEN [t EXCEPT !.pos = t.pos + 1] ELSE t

\* Tape::seek
TapeSeek(t, pos) == [t EXCEPT !.pos = pos]

\* IoPort::get_value: output bits where the direction says output, input bits elsewhere
IoPortGetValue(port) ==
    Or(And(port.output, port.direction, 8),
       And(port.input, Not(port.direction, 8), 8), 8)

\* IoPort::set_input_bit
IoPortSetInputBit(port, bit, level) ==
    [port EXCEPT !.input = bit_update(port.input, bit, level)]

\* the CPU's store to the output latch of its port: bit 5, the cassette motor
IoPortSetOutputBit(port, bit, level) ==
    [port EXCEPT !.output = bit_update(port.output, bit, level)]

\* the processor port of the C64: bits 0-3 and 5 are outputs, bit 4 (switch
\* sense) is an input; the motor starts off and the play button up
IoPortNew == [direction |-> 47, output |-> 55, input |-> 255]

\* the tapes attached: every sequence of at most MaxTapeLen pulses of 0..MaxPulse
\* cycles, and the one pulse of 8 cycles of the specification's scenario
RECURSIVE SeqsUpTo(_, _)
SeqsUpTo(S, n) ==
    IF n = 0 THEN {<<>>}
    ELSE LET shorter == SeqsUpTo(S, n - 1)
         IN  shorter \cup {Append(q, x) : q \in shorter, x \in S}

Tapes == SeqsUpTo(0 .. MaxPulse, MaxTapeLen) \cup {<<8>>}

VARIABLES
    vic,        \* the Vic register bank
    panicked,   \* a panic!() ended the process
    last,       \* the latest write(reg, value) call
    rd,         \* the latest read(reg) call since that write, and its result
    shadow,     \* the registers written so far, each with the value of its latest write
    nwrites,    \* write calls made
    playing,        \* Datassette.playing
    tape,           \* Datassette.tape
    current_pulse,  \* Datassette.current_pulse
    cia_flag,       \* the CIA flag pin's active level
    cpu_io_port,    \* the CPU's I/O port
    op,             \* the latest Datassette operation
    run,            \* the playback under way since play(): its phase, the clock()
                    \* calls that found the motor on, and whether a call found it
                    \* off (1: between pulses only, 2: in the middle of a pulse)
    replay,         \* how far reset(); play(); clock() has come since a reset()
                    \* that found a tape attached
    stops,          \* the stop() calls made in a row (counted up to 2)
    resume,         \* how far stop(); play(); clock() or detach(); attach();
                    \* play(); clock() has come since a pulse was left in flight
    pulse_run       \* a Pulse on its own: the length it was built with, the
                    \* levels its advance() calls returned, and whether
                    \* Pulse::new panicked

vicvars == <<vic, panicked, last, rd, shadow, nwrites>>

\* the Datassette and the wires it drives
devvars == <<playing, tape, current_pulse, cia_flag, cpu_io_port>>

datvars ==
    <<playing, tape, current_pulse, cia_flag, cpu_io_port, op, run, replay, stops, resume>>

vars == <<vic, panicked, last, rd, shadow, nwrites,
          playing, tape, current_pulse, cia_flag, cpu_io_port, op, run, replay, stops, resume,
          pulse_run>>

VicInit ==
    /\ vic = VicNew
    /\ panicked = FALSE
    /\ last = NoWrite
    /\ rd = NoRead
    /\ shadow = NoShadow
    /\ nwrites = 0

\* a call of Vic::write(reg, value)
Write(reg, value) ==
    /\ ~panicked
    /\ nwrites < MaxWrites
    /\ IF WritePanics(vic, reg, value)
       THEN /\ panicked' = TRUE
            /\ UNCHANGED vic
       ELSE /\ vic' = VicWrite(vic, reg, value)
            /\ UNCHANGED panicked
    /\ last' = [reg |-> reg, value |-> value]
    /\ shadow' = [r \in DOMAIN shadow \cup {reg} |-> IF r = reg THEN value ELSE shadow[r]]
    /\ rd' = NoRead
    /\ nwrites' = nwrites + 1
    /\ UNCHANGED <<datvars, pulse_run>>

\* a call of Vic::read(reg)
Read(reg) ==
    /\ ~panicked
    /\ rd' = [reg |-> reg, value |-> VicRead(vic, reg)]
    /\ UNCHANGED <<vic, panicked, last, shadow, nwrites>>
    /\ UNCHANGED <<datvars, pulse_run>>

VicNext ==
    \/ \E w \in WriteInputs : Write(w[1], w[2])
    \/ \E reg \in RegInputs : Read(reg)

\* no playback under way
NoRun == [phase |-> "none", calls |-> 0, paused |-> 0]

\* resume follows a pulse that an operation leaves in flight: stop() or
\* detach() called with a pulse not done, then (after detach) attach(), then
\* play(), then the clock() calls that drive what is left of that pulse
ResumeStop ==
    IF tape.attached /\ ~PulseIsDone(current_pulse) THEN "stopped" ELSE "none"

ResumeDetach == IF ~PulseIsDone(current_pulse) THEN "detached" ELSE "none"

ResumeAttach == IF resume = "detached" THEN "attached" ELSE "none"

ResumePlay ==
    IF resume = "stopped" THEN "play_same"
    ELSE IF resume = "attached" THEN "play_new"
    ELSE "none"

\* a clock() that finds the motor off changes nothing; one that finds the
\* pulse in flight drives a cycle of it; one that finds it done goes to the tape
ResumeClock ==
    LET motor_low == ~bit_test(IoPortGetValue(cpu_io_port), CassetteMotor)
    IN  IF resume \in {"play_same", "driven_same"}
        THEN (IF ~motor_low THEN resume
              ELSE IF ~PulseIsDone(current_pulse) THEN "driven_same" ELSE "none")
        ELSE IF resume \in {"play_new", "driven_new"}
        THEN (IF ~motor_low THEN resume
              ELSE IF ~PulseIsDone(current_pulse) THEN "driven_new" ELSE "none")
        ELSE "none"

\* Datassette::new, with the flag pin at either level
DatassetteInit ==
    /\ playing = FALSE
    /\ tape = NoTape
    /\ current_pulse = PulseNew(0, DUTY_CYCLE)
    /\ cia_flag \in BOOLEAN
    /\ cpu_io_port = IoPortNew
    /\ op = "new"
    /\ run = NoRun
    /\ replay = "none"
    /\ stops = 0
    /\ resume = "none"

\* is_playing without the motor bit
IsPlaying_NoMotor == playing

\* Datassette::is_playing
IsPlaying ==
    LET motor_on == ~bit_test(IoPortGetValue(cpu_io_port), CassetteMotor)
    IN  playing /\ motor_on

\* attach that starts the new tape with an empty pulse
Attach_FreshPulse(pulses) ==
    /\ tape' = TapeOf(pulses)
    /\ current_pulse' = PulseNew(0, DUTY_CYCLE)
    /\ op' = "attach"
    /\ resume' = ResumeAttach
    /\ stops' = 0
    /\ run' = NoRun
    /\ replay' = "none"
    /\ UNCHANGED <<playing, cia_flag, cpu_io_port>>
    /\ UNCHANGED <<vicvars, pulse_run>>

\* Datassette::attach
Attach(pulses) ==
    /\ tape' = TapeOf(pulses)
    /\ op' = "attach"
    /\ resume' = ResumeAttach
    /\ stops' = 0
    /\ run' = NoRun
    /\ replay' = "none"
    /\ UNCHANGED <<playing, current_pulse, cia_flag, cpu_io_port>>
    /\ UNCHANGED <<vicvars, pulse_run>>

\* stop that flips the switch sense instead of setting it
StopPort_Toggle(port) ==
    IoPortSetInputBit(port, CassetteSwitch, ~bit_test(port.input, CassetteSwitch))

\* Datassette::stop: the port after the call
StopPort(port) == IoPortSetInputBit(port, CassetteSwitch, TRUE)

\* Datassette::stop
Stop ==
    /\ cpu_io_port' = StopPort(cpu_io_port)
    /\ playing' = FALSE
    /\ op' = "stop"
    /\ resume' = ResumeStop
    /\ stops' = IF stops < 2 THEN stops + 1 ELSE 2
    /\ run' = NoRun
    /\ replay' = "none"
    /\ UNCHANGED <<tape, current_pulse, cia_flag>>
    /\ UNCHANGED <<vicvars, pulse_run>>

\* detach that removes the tape without stopping first
Detach_NoStop ==
    /\ tape' = NoTape
    /\ op' = "detach"
    /\ resume' = ResumeDetach
    /\ stops' = 0
    /\ run' = NoRun
    /\ replay' = "none"
    /\ UNCHANGED <<playing, cpu_io_port, current_pulse, cia_flag>>
    /\ UNCHANGED <<vicvars, pulse_run>>

\* Datassette::detach
Detach ==
    /\ cpu_io_port' = StopPort(cpu_io_port)
    /\ playing' = FALSE
    /\ tape' = NoTape
    /\ op' = "detach"
    /\ resume' = ResumeDetach
    /\ stops' = 0
    /\ run' = NoRun
    /\ replay' = "none"
    /\ UNCHANGED <<current_pulse, cia_flag>>
    /\ UNCHANGED <<vicvars, pulse_run>>

\* play without the check for a tape
Play_NoTapeCheck ==
    /\ cpu_io_port' = IoPortSetInputBit(cpu_io_port, CassetteSwitch, FALSE)
    /\ playing' = TRUE
    /\ op' = "play"
    /\ resume' = ResumePlay
    /\ stops' = 0
    /\ run' = IF tape.attached /\ tape.pos = 0 /\ PulseIsDone(current_pulse)
              THEN [phase |-> "playing", calls |-> 0, paused |-> 0]
              ELSE NoRun
    /\ replay' = IF replay \in {"reset", "reset_mid"} THEN "play" ELSE "none"
    /\ UNCHANGED <<tape, current_pulse, cia_flag>>
    /\ UNCHANGED <<vicvars, pulse_run>>

\* Datassette::play. A playback is followed from a play() that finds the tape
\* at its start and no pulse in flight
Play ==
    /\ IF tape.attached
       THEN /\ cpu_io_port' = IoPortSetInputBit(cpu_io_port, CassetteSwitch, FALSE)
            /\ playing' = TRUE
       ELSE UNCHANGED <<cpu_io_port, playing>>
    /\ op' = "play"
    /\ resume' = ResumePlay
    /\ stops' = 0
    /\ run' = IF tape.attached /\ tape.pos = 0 /\ PulseIsDone(current_pulse)
              THEN [phase |-> "playing", calls |-> 0, paused |-> 0]
              ELSE NoRun
    /\ replay' = IF replay \in {"reset", "reset_mid"} THEN "play" ELSE "none"
    /\ UNCHANGED <<tape, current_pulse, cia_flag>>
    /\ UNCHANGED <<vicvars, pulse_run>>

\* what reset() found: no tape, a tape with a pulse in flight while playing,
\* or a tape otherwise
ResetFound ==
    IF ~tape.attached THEN "none"
    ELSE IF playing /\ ~PulseIsDone(current_pulse) THEN "reset_mid"
    ELSE "reset"

\* reset that also puts the flag pin back to low
Reset_ClearFlag ==
    /\ cpu_io_port' = IoPortSetInputBit(cpu_io_port, CassetteSwitch, TRUE)
    /\ playing' = FALSE
    /\ current_pulse' = PulseNew(0, DUTY_CYCLE)
    /\ tape' = IF tape.attached THEN TapeSeek(tape, 0) ELSE tape
    /\ op' = "reset"
    /\ resume' = "none"
    /\ stops' = 0
    /\ run' = NoRun
    /\ replay' = ResetFound
    /\ cia_flag' = FALSE
    /\ UNCHANGED <<vicvars, pulse_run>>

\* reset without the rewind of the tape
Reset_NoSeek ==
    /\ cpu_io_port' = IoPortSetInputBit(cpu_io_port, CassetteSwitch, TRUE)
    /\ playing' = FALSE
    /\ current_pulse' = PulseNew(0, DUTY_CYCLE)
    /\ tape' = tape
    /\ op' = "reset"
    /\ resume' = "none"
    /\ stops' = 0
    /\ run' = NoRun
    /\ replay' = ResetFound
    /\ UNCHANGED cia_flag
    /\ UNCHANGED <<vicvars, pulse_run>>

\* Datassette::reset
Reset ==
    /\ cpu_io_port' = IoPortSetInputBit(cpu_io_port, CassetteSwitch, TRUE)
    /\ playing' = FALSE
    /\ current_pulse' = PulseNew(0, DUTY_CYCLE)
    /\ tape' = IF tape.attached THEN TapeSeek(tape, 0) ELSE tape
    /\ op' = "reset"
    /\ resume' = "none"
    /\ stops' = 0
    /\ run' = NoRun
    /\ replay' = ResetFound
    /\ UNCHANGED cia_flag
    /\ UNCHANGED <<vicvars, pulse_run>>

\* ClockRead whose stop at the end of the tape leaves the switch sense alone
ClockRead_KeepSense(d) ==
    IF PulseIsDone(d.current_pulse)
    THEN LET pulse_maybe == IF d.tape.attached THEN TapeReadPulse(d.tape) ELSE Panic
             tape1 == IF d.tape.attached THEN TapeAfterRead(d.tape) ELSE d.tape
         IN  IF pulse_maybe # Panic
             THEN [d EXCEPT !.tape = tape1,
                            !.current_pulse = PulseNew(pulse_maybe, DUTY_CYCLE)]
             ELSE [d EXCEPT !.tape = tape1,
                            !.playing = FALSE]
    ELSE d

\* ClockRead without the stop at the end of the tape
ClockRead_NoStop(d) ==
    IF PulseIsDone(d.current_pulse)
    THEN LET pulse_maybe == IF d.tape.attached THEN TapeReadPulse(d.tape) ELSE Panic
             tape1 == IF d.tape.attached THEN TapeAfterRead(d.tape) ELSE d.tape
         IN  IF pulse_maybe # Panic
             THEN [d EXCEPT !.tape = tape1,
                            !.current_pulse = PulseNew(pulse_maybe, DUTY_CYCLE)]
             ELSE [d EXCEPT !.tape = tape1]
    ELSE d

\* Datassette::clock, first half: with the current pulse done, the next pulse is
\* read from the tape, or the device stops at the end of the tape
ClockRead(d) ==
    IF PulseIsDone(d.current_pulse)
    THEN LET pulse_maybe == IF d.tape.attached THEN TapeReadPulse(d.tape) ELSE Panic
             tape1 == IF d.tape.attached THEN TapeAfterRead(d.tape) ELSE d.tape
         IN  IF pulse_maybe # Panic
             THEN [d EXCEPT !.tape = tape1,
                            !.current_pulse = PulseNew(pulse_maybe, DUTY_CYCLE)]
             ELSE [d EXCEPT !.tape = tape1,
                            !.cpu_io_port = StopPort(d.cpu_io_port),
                            !.playing = FALSE]
    ELSE d

\* ClockDrive without the check that the pulse is not done
ClockDrive_Always(d) ==
    [d EXCEPT !.cia_flag = PulseLevel(d.current_pulse),
              !.current_pulse = PulseAdvance(d.current_pulse)]

\* Datassette::clock, second half: a pulse that is not done is advanced and
\* its level driven onto the flag pin
ClockDrive(d) ==
    IF ~PulseIsDone(d.current_pulse)
    THEN [d EXCEPT !.cia_flag = PulseLevel(d.current_pulse),
                   !.current_pulse = PulseAdvance(d.current_pulse)]
    ELSE d

\* the Datassette and its wires as one record
Device ==
    [playing |-> playing, tape |-> tape, current_pulse |-> current_pulse,
     cia_flag |-> cia_flag, cpu_io_port |-> cpu_io_port]

\* clock with `else if`: the call that reads a pulse does not drive its first level
ClockResult_ElseIf(d, is_playing) ==
    IF is_playing /\ d.tape.attached
    THEN (IF PulseIsDone(d.current_pulse) THEN ClockRead(d) ELSE ClockDrive(d))
    ELSE d

\* Datassette::clock: the device after the call
ClockResult(d, is_playing) ==
    IF is_playing /\ d.tape.attached THEN ClockDrive(ClockRead(d)) ELSE d

\* Datassette::clock. run counts the calls that found the motor on; a call
\* that finds the motor off marks the playback as paused
Clock ==
    LET d == ClockResult(Device, IsPlaying)
        motor_low == ~bit_test(IoPortGetValue(cpu_io_port), CassetteMotor)
    IN  /\ playing' = d.playing
        /\ tape' = d.tape
        /\ current_pulse' = d.current_pulse
        /\ cia_flag' = d.cia_flag
        /\ cpu_io_port' = d.cpu_io_port
        /\ op' = "clock"
        /\ resume' = ResumeClock
        /\ stops' = 0
        /\ run' = IF run.phase = "playing"
                  THEN (IF ~motor_low
                        THEN [run EXCEPT !.paused =
                                IF PulseIsDone(current_pulse) /\ run.paused < 2 THEN 1 ELSE 2]
                        ELSE IF d.playing THEN [run EXCEPT !.calls = run.calls + 1]
                        ELSE [run EXCEPT !.calls = run.calls + 1, !.phase = "ended"])
                  ELSE run
        /\ replay' = IF replay = "play"
                     THEN (IF IsPlaying THEN "clock" ELSE "play")
                     ELSE "none"
        /\ UNCHANGED <<vicvars, pulse_run>>

\* the CPU stores to its port: the cassette motor bit
CpuSetMotor(level) ==
    /\ cpu_io_port' = IoPortSetOutputBit(cpu_io_port, CassetteMotor, level)
    /\ op' = "motor"
    /\ resume' = resume
    /\ stops' = 0
    /\ UNCHANGED <<run, replay>>
    /\ UNCHANGED <<playing, tape, current_pulse, cia_flag>>
    /\ UNCHANGED <<vicvars, pulse_run>>

DatassetteNext ==
    \/ \E pulses \in Tapes : Attach(pulses)
    \/ Detach
    \/ Play
    \/ Stop
    \/ Reset
    \/ Clock
    \/ \E level \in BOOLEAN : CpuSetMotor(level)

\* no pulse built yet
NoPulseRun ==
    [pulse |-> PulseNew(0, DUTY_CYCLE), length |-> 0, levels |-> <<>>, state |-> "none"]

PulseInit == pulse_run = NoPulseRun

\* the lengths given to Pulse::new: the short ones, and those around the
\* largest whose product fits u32
PulseLengths ==
    (0 .. MaxLength) \cup {LastExactLength - 1, LastExactLength, LastExactLength + 1}

\* a call of Pulse::new(length, DUTY_CYCLE), in a build with or without
\* overflow checks
PulseBuild(length) ==
    /\ pulse_run.state # "panicked"
    /\ \E overflow_checks \in BOOLEAN :
            pulse_run' =
                IF overflow_checks /\ PulseNewOverflows(length, DUTY_CYCLE)
                THEN [pulse_run EXCEPT !.length = length, !.levels = <<>>,
                                       !.state = "panicked"]
                ELSE [pulse |-> PulseNew(length, DUTY_CYCLE), length |-> length,
                      levels |-> <<>>, state |-> "built"]
    /\ UNCHANGED <<vicvars, datvars>>

\* a call of advance() on the pulse, made as clock() makes it: only on a pulse
\* that is not done
PulseStep ==
    /\ pulse_run.state = "built"
    /\ ~PulseIsDone(pulse_run.pulse)
    /\ Len(pulse_run.levels) < MaxAdvances
    /\ pulse_run' = [pulse_run EXCEPT !.pulse = PulseAdvance(pulse_run.pulse),
                                      !.levels = Append(pulse_run.levels,
                                                        PulseLevel(pulse_run.pulse))]
    /\ UNCHANGED <<vicvars, datvars>>

PulseNext ==
    \/ \E length \in PulseLengths : PulseBuild(length)
    \/ PulseStep

Init == VicInit /\ DatassetteInit /\ PulseInit

\* the register bank is examined with the flag pin at rest
VicSpecInit == Init /\ cia_flag = FALSE

\* the register bank alone: the Datassette stays as constructed, its flag pin low
VicSpec == VicSpecInit /\ [][VicNext]_vars

DatassetteSpec == Init /\ [][DatassetteNext]_vars

\* clock() called on a device that play() has started
PlaybackClock == op \in {"play", "clock"} /\ Clock

\* one playback: a tape is attached to the new device, the CPU turns the
\* motor on, play() is called, and from then on nothing but clock() is called
PlaybackNext ==
    \/ op = "new" /\ \E pulses \in Tapes : Attach(pulses)
    \/ op = "attach" /\ CpuSetMotor(FALSE)
    \/ op = "motor" /\ Play
    \/ PlaybackClock

\* the machine calls clock() on every cycle
PlaybackSpec == Init /\ [][PlaybackNext]_vars /\ WF_vars(PlaybackClock)

\* a Pulse alone, the register bank and the Datassette as constructed
PulseSpecInit == Init /\ cia_flag = FALSE

PulseSpec == PulseSpecInit /\ [][PulseNext]_vars

\* the pulse lengths of a train: the short ones, the largest whose product fits
\* u32 and the first whose product does not
TrainLengths == (0 .. MaxPulse) \cup {LastExactLength, LastExactLength + 1}

TrainTapes == SeqsUpTo(TrainLengths, MaxTapeLen)

\* Datassette::clock in a build with overflow checks, on a call that reads a
\* length whose product overflows: Pulse::new panics after read_pulse()
ClockPanics ==
    /\ tape' = TapeAfterRead(tape)
    /\ op' = "panic"
    /\ UNCHANGED <<playing, current_pulse, cia_flag, cpu_io_port, run, replay, stops, resume>>
    /\ UNCHANGED <<vicvars, pulse_run>>

\* clock() called on a device that play() has started, in a build with or
\* without overflow checks. Of a pulse too long to follow to its end, the
\* first MaxPulse + 1 cycles are driven
TrainClock ==
    /\ op \in {"play", "clock"}
    /\ \/ current_pulse.remaining_cycles <= MaxPulse
       \/ current_pulse.remaining_cycles > LastExactLength - MaxPulse
    /\ \E overflow_checks \in BOOLEAN :
            IF /\ overflow_checks
               /\ IsPlaying /\ tape.attached /\ PulseIsDone(current_pulse)
               /\ TapeReadPulse(tape) # Panic
               /\ PulseNewOverflows(TapeReadPulse(tape), DUTY_CYCLE)
            THEN ClockPanics
            ELSE Clock

\* one playback of a train of pulses: attach, motor on, play, then clock()
\* on every cycle
TrainNext ==
    \/ op = "new" /\ \E pulses \in TrainTapes : Attach(pulses)
    \/ op = "attach" /\ CpuSetMotor(FALSE)
    \/ op = "motor" /\ Play
    \/ TrainClock

TrainSpec == Init /\ [][TrainNext]_vars

(***************************************************************************)
(* Properties of the VIC-II register bank, checked under VicSpec.          *)
(***************************************************************************)
\* bit n of a byte or word
Bit(x, n) == (x \div (2 ^ n)) % 2

\* a read(reg) was made right after the write(reg, value) in `last`
ReadBack == last # NoWrite /\ rd # NoRead /\ rd.reg = last.reg

\* the bits of register r documented as reading 1 whatever was written
ReservedOnes(r) ==
    IF r \in EC .. M7C THEN 240
    ELSE IF r = CR2 THEN 224
    ELSE IF r = MEMPTR THEN 1
    ELSE IF r \in {MM, MD} THEN 255
    ELSE 0

\* the bits of register r that read the raster counter, which no write
\* reaches (a write to RASTER or to bit 7 of CR1 loads raster_compare)
RasterBits(r) ==
    IF r = RASTER THEN 255
    ELSE IF r = CR1 THEN 128
    ELSE 0

\* C1: write(r, v) followed by read(r), r in 0x00..=0x2e, returns a byte that
\* differs from v only in the bits of r that are reserved to 1. The bits that
\* read the raster counter are not held against the claim here, so that what
\* fails is a bit the register bank stores and does not return.
C1_RegisterRoundTrip ==
    (ReadBack /\ last.reg \in 0 .. 46) =>
        \A n \in 0 .. 7 :
            (Bit(ReservedOnes(last.reg), n) = 0 /\ Bit(RasterBits(last.reg), n) = 0)
                => Bit(rd.value, n) = Bit(last.value, n)

\* C2: read(0x18) returns (video_matrix >> 10) & 0xf in bits 7-4,
\* (char_base >> 11) & 0x7 in bits 3-1 and 1 in bit 0; read straight after
\* write(0x18, v) it returns v | 0x01.
C2_MemptrEncoding ==
    (rd # NoRead /\ rd.reg = MEMPTR) =>
        /\ rd.value \div 16 = (vic.video_matrix \div 1024) % 16
        /\ (rd.value \div 2) % 8 = (vic.char_base \div 2048) % 8
        /\ rd.value % 2 = 1
        /\ (ReadBack =>
                rd.value = IF last.value % 2 = 1 THEN last.value ELSE last.value + 1)

\* C3: once CR1 was written with bit 6 = ECM and bit 5 = BMM and CR2 with
\* bit 4 = MCM, in either order, the mode is variant (ECM<<2)|(BMM<<1)|MCM,
\* read(CR1) returns ECM and BMM in bits 6 and 5 and read(CR2) MCM in bit 4.
C3_ModeRoundTrip ==
    (CR1 \in DOMAIN shadow /\ CR2 \in DOMAIN shadow) =>
        LET ecm == Bit(shadow[CR1], 6)
            bmm == Bit(shadow[CR1], 5)
            mcm == Bit(shadow[CR2], 4)
        IN  /\ vic.mode = 4 * ecm + 2 * bmm + mcm
            /\ (rd.reg = CR1 => Bit(rd.value, 6) = ecm /\ Bit(rd.value, 5) = bmm)
            /\ (rd.reg = CR2 => Bit(rd.value, 4) = mcm)

\* a step is a call of write(reg, _)
WroteTo(reg) == nwrites' = nwrites + 1 /\ last'.reg = reg

\* C6, the state after the writes: once MnX and MX8 were both written, in
\* either order and whatever else was written, sprite n's x is the 9-bit value
\* made of MX8's bit n and the byte written to MnX, and both registers read
\* their part of it back.
C6_SpriteXAssembled ==
    \A n \in 0 .. 7 :
        (2 * n \in DOMAIN shadow /\ MX8 \in DOMAIN shadow) =>
            LET x == 256 * Bit(shadow[MX8], n) + shadow[2 * n]
            IN  /\ vic.sprites[n].x = x
                /\ VicRead(vic, 2 * n) = x % 256
                /\ Bit(VicRead(vic, MX8), n) = x \div 256
                /\ (rd.reg = 2 * n => rd.value = x % 256)
                /\ (rd.reg = MX8 => Bit(rd.value, n) = x \div 256)

\* C6, every sprite: from any register bank that fewer than MaxWrites writes
\* have reached, writing low byte lo to MnX and a byte whose bit n is hi to
\* MX8, in either order, leaves sprite n at 256 * hi + lo, with both registers
\* reading their part back.
C6_SpriteXAnySprite ==
    (rd = NoRead /\ nwrites < MaxWrites) =>
        \A n \in 0 .. 7, lo \in {0, 128, 255}, hi \in 0 .. 1 :
            \A m8 \in {hi * Pow2(n), 255 - (1 - hi) * Pow2(n)} :
                \A w \in {VicWrite(VicWrite(vic, 2 * n, lo), MX8, m8),
                           VicWrite(VicWrite(vic, MX8, m8), 2 * n, lo)} :
                    /\ w.sprites[n].x = 256 * hi + lo
                    /\ VicRead(w, 2 * n) = lo
                    /\ Bit(VicRead(w, MX8), n) = hi

\* C6, the writes: a write to MnX leaves bit 8 of every sprite's x alone and a
\* write to MX8 leaves the low byte of every sprite's x alone.
C6_SpriteXFrame ==
    /\ (\E m \in 0 .. 7 : WroteTo(2 * m)) =>
            \A n \in 0 .. 7 : vic'.sprites[n].x \div 256 = vic.sprites[n].x \div 256
    /\ WroteTo(MX8) =>
            \A n \in 0 .. 7 : vic'.sprites[n].x % 256 = vic.sprites[n].x % 256

ColourRegs == EC .. M7C

\* the four-bit field behind colour register r
ColourField(v, r) ==
    IF r = EC THEN v.border_color
    ELSE IF r \in B0C .. B3C THEN v.background_color[r - B0C]
    ELSE IF r \in MM0 .. MM1 THEN v.sprite_multicolor[r - MM0]
    ELSE v.sprites[r - M0C].color

\* C7: a write of v to a colour register stores v & 0x0f, the read that follows
\* returns (v & 0x0f) | 0xf0, and every colour register reads with a high
\* nibble of 0xf in every state. The last conjunct applies write and read to
\* each of the fifteen colour registers in every register bank reached (a bank
\* is reached with rd = NoRead before any read is made of it).
C7_ColourMasking ==
    /\ \A r \in ColourRegs : VicRead(vic, r) \div 16 = 15
    /\ (rd # NoRead /\ rd.reg \in ColourRegs) => rd.value \div 16 = 15
    /\ (last # NoWrite /\ last.reg \in ColourRegs) =>
            ColourField(vic, last.reg) = last.value % 16
    /\ (ReadBack /\ last.reg \in ColourRegs) => rd.value = (last.value % 16) + 240
    /\ rd = NoRead =>
            \A r \in ColourRegs, v \in ByteInputs \cup {0, 255} :
                LET w == VicWrite(vic, r, v)
                IN  ColourField(w, r) = v % 16 /\ VicRead(w, r) = (v % 16) + 240

\* C7 witness: 0xa5 was written to the sprite 3 colour and read back as 0xf5.
C7_Witness ==
    /\ last = [reg |-> M0C + 3, value |-> 165]
    /\ vic.sprites[3].color = 5
    /\ rd = [reg |-> M0C + 3, value |-> 245]

\* the register bank v is within its ranges
BankInRange(v) ==
    /\ v.border_color \in 0 .. 15
    /\ \A i \in 0 .. 3 : v.background_color[i] \in 0 .. 15
    /\ \A i \in 0 .. 1 : v.sprite_multicolor[i] \in 0 .. 15
    /\ \A n \in 0 .. 7 : v.sprites[n].color \in 0 .. 15 /\ v.sprites[n].x \in 0 .. 511
    /\ v.scroll_x \in 0 .. 7
    /\ v.scroll_y \in 0 .. 7
    /\ v.raster \in 0 .. 511
    /\ v.raster_compare \in 0 .. 511
    /\ v.mode \in 0 .. 7

\* C8: in every state the colours are four bits wide, every sprite x, raster and
\* raster_compare are below 512, the scrolls below 8 and the mode one of the
\* eight variants, and no write has panicked; a further write of 0xff to any
\* address 0x00..=0x3f of any register bank reached neither panics (the mode
\* it leaves is one of the eight) nor leaves the ranges.
C8_BankInvariants ==
    /\ ~panicked
    /\ BankInRange(vic)
    /\ rd = NoRead =>
            \A reg \in 0 .. 63 :
                /\ RegFrom(reg) # Panic
                /\ BankInRange(VicWrite(vic, reg, 255))

\* C8 witness: CR1 then CR2 were written with the ECM and MCM bits set and
\* 0x5a left 2 in scroll_x.
C8_Witness ==
    /\ CR1 \in DOMAIN shadow
    /\ last.reg = CR2
    /\ vic.mode = 5
    /\ vic.scroll_x = 2

(***************************************************************************)
(* Properties of the Datassette, checked under DatassetteSpec.             *)
(***************************************************************************)
\* bit 5 of the CPU I/O port: 0 = the motor spins
MotorBit == Bit(IoPortGetValue(cpu_io_port), 5)

\* bit 4 of the CPU I/O port: 0 = the play button is down
SenseBit == Bit(IoPortGetValue(cpu_io_port), 4)

\* every pulse of the tape lasts at least one cycle
AllPositive(pulses) == \A i \in 1 .. Len(pulses) : pulses[i] >= 1

\* L1 + ... + Lk
RECURSIVE SumTo(_, _)
SumTo(pulses, k) == IF k = 0 THEN 0 ELSE pulses[k] + SumTo(pulses, k - 1)

\* the pulse that cycle c of the playback falls in
PulseAt(pulses, c) ==
    CHOOSE i \in 1 .. Len(pulses) : SumTo(pulses, i - 1) < c /\ c <= SumTo(pulses, i)

\* where the device stands after run.calls cycles of the tape L1..Lk: in pulse
\* i, at its cycle j, the flag low for the first floor(Li/2) cycles of the Li
\* and high for the rest, and stopped by cycle L1+...+Lk+1
PlaybackOnTime ==
    LET pulses == tape.pulses
        c == run.calls
        total == SumTo(pulses, Len(pulses))
    IN  /\ run.phase = "playing" =>
            /\ playing
            /\ c <= total
            /\ c >= 1 =>
                LET i == PulseAt(pulses, c)
                    j == c - SumTo(pulses, i - 1)
                IN  /\ tape.pos = i
                    /\ current_pulse.remaining_cycles = pulses[i] - j
                    /\ cia_flag = (j > pulses[i] \div 2)
        /\ run.phase = "ended" =>
            /\ c = total + 1
            /\ ~playing
            /\ tape.pos = Len(pulses)

C5_GatedClockFrame ==
    (op' = "clock" /\ (~playing \/ MotorBit = 1 \/ ~tape.attached)) =>
        UNCHANGED <<playing, tape, current_pulse, cia_flag, cpu_io_port>>

\* C5, the resumed playback: counting only the clock() calls that found the
\* motor on, the pulse, the tape position and the flag level are those of the
\* playback that was never paused.
C5_ResumesInPlace ==
    (run.phase # "none" /\ AllPositive(tape.pulses)) => PlaybackOnTime

\* C5: a clock() call while is_playing() is false or no tape is attached
\* changes nothing, so a playback paused by the motor bit resumes at the cycle
\* where it froze and drives the levels of the unpaused playback.
C5_MotorGating == [][C5_GatedClockFrame]_vars /\ []C5_ResumesInPlace

\* C5 witness: the motor was off for a clock() call in the middle of a pulse,
\* and the latest clock() call, with the motor on again, went on inside a pulse.
C5_Witness ==
    /\ run.phase = "playing"
    /\ run.paused = 2
    /\ run.calls >= 2
    /\ op = "clock"
    /\ MotorBit = 0
    /\ current_pulse.remaining_cycles >= 1

\* C9, the stopping call: clock() with is_playing() true, the current pulse
\* done and the tape at its end clears playing and drives the switch sense
\* high, and neither drives the flag pin nor advances the pulse.
C9_StopsAtEnd ==
    (/\ op' = "clock"
     /\ playing /\ MotorBit = 0
     /\ tape.attached /\ tape.pos = Len(tape.pulses)
     /\ current_pulse.remaining_cycles = 0)
        => /\ ~playing'
           /\ SenseBit' = 1
           /\ cia_flag' = cia_flag
           /\ current_pulse' = current_pulse
           /\ tape' = tape

\* C9, afterwards: with playing clear a clock() call changes nothing, and only
\* play() sets playing again.
C9_StaysStopped ==
    /\ (op' = "clock" /\ ~playing) =>
            UNCHANGED <<playing, tape, current_pulse, cia_flag, cpu_io_port>>
    /\ (~playing /\ playing') => op' = "play"

\* C9: at the end of the tape clock() stops the device in that same call,
\* without driving the flag pin or advancing the pulse, and every later
\* clock() call is a no-op until play() is called.
C9_EndOfTapeStop == [][C9_StopsAtEnd]_vars /\ [][C9_StaysStopped]_vars

\* C9 witness: a tape of at least one pulse was played to its end and the
\* latest clock() call found or left the device stopped there.
C9_Witness ==
    /\ op = "clock"
    /\ run.phase = "ended"
    /\ Len(tape.pulses) >= 1
    /\ ~playing
    /\ SenseBit = 1

\* C10: with a tape attached play() drives the switch sense low and sets
\* playing; with none it changes nothing of the device, the flag pin or the port.
C10_PlayStep ==
    op' = "play" =>
        IF tape.attached
        THEN SenseBit' = 0 /\ playing'
        ELSE UNCHANGED <<playing, tape, current_pulse, cia_flag, cpu_io_port>>

\* C10: play() contract, over every play() call.
C10_PlayContract == [][C10_PlayStep]_vars

\* C10 witness: play() was called with no tape attached, a pulse of the
\* detached tape still in flight, and the device is not playing.
C10_Witness ==
    /\ op = "play"
    /\ ~tape.attached
    /\ ~playing
    /\ SenseBit = 1
    /\ current_pulse.remaining_cycles >= 1

\* the fields of a Datassette constructed by new() and given the tape by attach()
FreshWithTape(pulses) ==
    [playing |-> FALSE, tape |-> TapeOf(pulses), current_pulse |-> PulseNew(0, DUTY_CYCLE)]

\* C11, the call: reset() with a tape attached leaves playing clear, the
\* switch sense high, the pulse in flight replaced by a done one (no cycles
\* remaining, none low) and the tape at position 0: the fields of a device
\* just constructed and given that tape.
C11_ResetStep ==
    (op' = "reset" /\ tape.attached) =>
        /\ ~playing'
        /\ SenseBit' = 1
        /\ current_pulse'.remaining_cycles = 0 /\ current_pulse'.low_cycles = 0
        /\ tape'.attached /\ tape'.pos = 0 /\ tape'.pulses = tape.pulses
        /\ [playing |-> playing', tape |-> tape', current_pulse |-> current_pulse']
                = FreshWithTape(tape.pulses)

\* C11, afterwards: the play() that follows leaves the device playing at the
\* start of the tape with no pulse in flight, and the first clock() that finds
\* the motor on reads the first pulse of the tape and drives its first cycle
\* (or stops the device when the tape is empty).
C11_Replays ==
    /\ replay = "play" =>
            /\ playing /\ SenseBit = 0
            /\ tape.pos = 0 /\ PulseIsDone(current_pulse)
            /\ run.phase = "playing" /\ run.calls = 0
    /\ replay = "clock" =>
            IF tape.pulses = <<>>
            THEN ~playing /\ tape.pos = 0 /\ PulseIsDone(current_pulse)
            ELSE /\ playing
                 /\ tape.pos = 1
                 /\ current_pulse =
                        IF tape.pulses[1] = 0 THEN PulseNew(0, DUTY_CYCLE)
                        ELSE PulseAdvance(PulseNew(tape.pulses[1], DUTY_CYCLE))
                 /\ (tape.pulses[1] >= 1 => cia_flag = (tape.pulses[1] \div 2 = 0))

\* C11: reset() restores the configuration of a new device with the tape
\* attached, from any state with a tape attached, and a play() that follows
\* replays the tape from its first pulse.
C11_ResetRestores == [][C11_ResetStep]_vars /\ []C11_Replays

\* C11 witness: reset() found a two-pulse tape attached and the device
\* playing with a pulse in flight, and left the flag pin high.
C11_Witness ==
    /\ op = "reset" /\ replay = "reset_mid"
    /\ Len(tape.pulses) = 2 /\ tape.pos = 0
    /\ ~playing /\ SenseBit = 1
    /\ PulseIsDone(current_pulse)
    /\ cia_flag

\* C12, one call: stop() drives the switch sense high and clears playing, and
\* leaves the pulse in flight, the tape and the flag pin alone.
C12_StopStep ==
    op' = "stop" =>
        /\ ~playing'
        /\ SenseBit' = 1
        /\ UNCHANGED <<current_pulse, tape, cia_flag>>

\* C12, the second call: a stop() that follows a stop() changes nothing of the
\* device, its port or the flag pin.
C12_StopAgain ==
    (op' = "stop" /\ stops >= 1) =>
        UNCHANGED <<playing, cpu_io_port, current_pulse, tape, cia_flag>>

\* C12: stop() is idempotent: stop(); stop() leaves the state a single stop()
\* leaves, from any state; the port after two calls is the port after one.
C12_StopIdempotent ==
    /\ [][C12_StopStep]_vars
    /\ [][C12_StopAgain]_vars
    /\ [](StopPort(StopPort(cpu_io_port)) = StopPort(cpu_io_port))

\* C12 witness: stop() was called twice in a row on a device that was playing
\* a tape, with a pulse still in flight.
C12_Witness ==
    /\ op = "stop" /\ stops = 2
    /\ ~playing /\ SenseBit = 1
    /\ tape.attached /\ tape.pos >= 1
    /\ current_pulse.remaining_cycles >= 1

(***************************************************************************)
(* Properties of a Pulse on its own, checked under PulseSpec.              *)
(***************************************************************************)
\* the square wave of a pulse built with `length` cycles at 50% duty: new did
\* not panic; call i of advance() returned low exactly when i <= length / 2,
\* so the low calls are the first length / 2 and number length / 2 once all
\* are made; the pulse is done after call `length` and not before.
SquareWave(r) ==
    LET half == r.length \div 2
        made == Len(r.levels)
        lows == Cardinality({i \in 1 .. made : ~r.levels[i]})
    IN  /\ r.state = "built"
        /\ made <= r.length
        /\ \A i \in 1 .. made : r.levels[i] = (i > half)
        /\ lows = (IF made < half THEN made ELSE half)
        /\ PulseIsDone(r.pulse) <=> (made = r.length)

DeadRegs == (47 .. 63) \cup {MM, MD}

\* C14, in every register bank reached: each dead address reads 0xff, and a
\* write of any of four byte patterns to it neither panics nor changes the
\* bank; a read made of a dead address returned 0xff.
C14_DeadInPlace ==
    /\ (rd # NoRead /\ rd.reg \in DeadRegs) => rd.value = 255
    /\ rd = NoRead =>
            \A r \in DeadRegs :
                /\ VicRead(vic, r) = 255
                /\ \A v \in ByteInputs \cup {0, 255} :
                        ~WritePanics(vic, r, v) /\ VicWrite(vic, r, v) = vic

\* C14, the write: a write(r, v) call to a dead address leaves the register
\* bank as it was.
C14_DeadWriteStep ==
    (\E r \in DeadRegs : WroteTo(r)) => UNCHANGED <<vic, panicked>>

\* C14: 0x2f..=0x3f, MM and MD read 0xff in every state and ignore writes.
C14_DeadRegisters == []C14_DeadInPlace /\ [][C14_DeadWriteStep]_vars

\* C14 witness: after an earlier write changed the register bank, 0x5a was
\* written to 0x2f as the last of the writes and 0x2f was read back as 0xff.
C14_Witness ==
    /\ last = [reg |-> 47, value |-> 90]
    /\ rd = [reg |-> 47, value |-> 255]
    /\ nwrites = MaxWrites
    /\ vic # VicNew

\* a step is a call of write
WroteAny == nwrites' = nwrites + 1

\* C15, the write: no write changes the raster counter, nor what read(RASTER)
\* and bit 7 of read(CR1) return; a write to RASTER changes the low byte of
\* raster_compare and nothing else, and a write to CR1 loads its bit 7 into
\* bit 8 of raster_compare and keeps the low byte.
C15_RasterWriteStep ==
    /\ WroteAny =>
            /\ vic'.raster = vic.raster
            /\ VicRead(vic', RASTER) = VicRead(vic, RASTER)
            /\ Bit(VicRead(vic', CR1), 7) = Bit(VicRead(vic, CR1), 7)
    /\ WroteTo(RASTER) =>
            vic' = [vic EXCEPT !.raster_compare =
                        256 * (vic.raster_compare \div 256) + last'.value]
    /\ WroteTo(CR1) =>
            vic'.raster_compare =
                256 * Bit(last'.value, 7) + (vic.raster_compare % 256)

\* C15, in every register bank reached: the raster counter is the one
\* Vic::new set, a read of RASTER returned its low byte and a read of CR1 its
\* bit 8 in bit 7, and from a bank that fewer than MaxWrites writes have
\* reached a write of any of four byte patterns to any address 0x00..=0x3f
\* leaves the raster counter alone.
C15_RasterKept ==
    /\ vic.raster = VicNew.raster
    /\ rd.reg = RASTER => rd.value = vic.raster % 256
    /\ rd.reg = CR1 => Bit(rd.value, 7) = vic.raster \div 256
    /\ (rd = NoRead /\ nwrites < MaxWrites) =>
            \A r \in 0 .. 63, v \in ByteInputs \cup {0, 255} :
                VicWrite(vic, r, v).raster = vic.raster

\* C15: the raster counter is read-only from software: writes to RASTER and to
\* bit 7 of CR1 reach raster_compare only, and read(RASTER) and bit 7 of
\* read(CR1) return the same before and after any write.
C15_RasterReadOnly == [][C15_RasterWriteStep]_vars /\ []C15_RasterKept

\* C15 witness: CR1 was written with bit 7 clear and RASTER with 0xa5, so
\* raster_compare is 0x0a5, while the raster counter is still 0x100 and
\* read(RASTER) returned 0x00.
C15_Witness ==
    /\ CR1 \in DOMAIN shadow /\ shadow[CR1] = 90
    /\ last = [reg |-> RASTER, value |-> 165]
    /\ rd = [reg |-> RASTER, value |-> 0]
    /\ vic.raster_compare = 165
    /\ vic.raster = 256

\* C16, in every state: a read(0x16) made after write(0x16, v) returned
\* v | 0xc0 | 0x20; and from a register bank that fewer than MaxWrites writes
\* have reached, for every byte v, write(0x16, v) sets MCM (mode bit 0) to
\* bit 4, csel to bit 3 and scroll_x to bits 2-0 of v, and read(0x16) then
\* returns v with bits 7-5 set.
C16_Cr2RoundTrip ==
    /\ (ReadBack /\ last.reg = CR2) => rd.value = 224 + (last.value % 32)
    /\ (rd = NoRead /\ nwrites < MaxWrites) =>
            \A v \in Byte :
                \A w \in {VicWrite(vic, CR2, v)} :
                    /\ w.mode % 2 = Bit(v, 4)
                    /\ w.csel = (Bit(v, 3) = 1)
                    /\ w.scroll_x = v % 8
                    /\ VicRead(w, CR2) = 224 + (v % 32)

\* C16 witness: after another register was written, 0x5a was written to CR2
\* and read back as 0xfa, with MCM and csel set and scroll_x = 2.
C16_Witness ==
    /\ last = [reg |-> CR2, value |-> 90]
    /\ rd = [reg |-> CR2, value |-> 250]
    /\ nwrites = MaxWrites
    /\ vic.mode % 2 = 1 /\ vic.csel /\ vic.scroll_x = 2

\* the registers that pack one flag of each sprite into a byte
PackedRegs == {ME, MYE, MDP, MMC, MXE}

\* the flag of sprite sp that register r packs
FlagOf(sp, r) ==
    IF r = ME THEN sp.enabled
    ELSE IF r = MYE THEN sp.expand_y
    ELSE IF r = MDP THEN sp.priority
    ELSE IF r = MMC THEN sp.multicolor
    ELSE sp.expand_x

\* sprite sp with the flag that register r packs set to b
WithFlag(sp, r, b) ==
    IF r = ME THEN [sp EXCEPT !.enabled = b]
    ELSE IF r = MYE THEN [sp EXCEPT !.expand_y = b]
    ELSE IF r = MDP THEN [sp EXCEPT !.priority = b]
    ELSE IF r = MMC THEN [sp EXCEPT !.multicolor = b]
    ELSE [sp EXCEPT !.expand_x = b]

\* byte patterns: each bit alone, each bit alone clear, and four mixed ones
BitPatterns ==
    {2 ^ n : n \in 0 .. 7} \cup {255 - 2 ^ n : n \in 0 .. 7} \cup {0, 255, 165, 90}

\* C17: for R among ME, MYE, MDP, MMC, MXE, write(R, v) sets sprite n's
\* flag to bit n of v for every n and changes nothing else, and the read(R)
\* that follows returns v. Held of the writes and reads made, and of a write
\* of each pattern to each of the five registers from every register bank
\* that fewer than MaxWrites writes have reached.
C17_PackedSpriteBits ==
    /\ (ReadBack /\ last.reg \in PackedRegs) => rd.value = last.value
    /\ (last # NoWrite /\ last.reg \in PackedRegs) =>
            \A n \in 0 .. 7 : FlagOf(vic.sprites[n], last.reg) = (Bit(last.value, n) = 1)
    /\ (rd = NoRead /\ nwrites < MaxWrites) =>
            \A r \in PackedRegs, v \in BitPatterns :
                \A w \in {VicWrite(vic, r, v)} :
                    /\ w = [vic EXCEPT !.sprites =
                                [n \in 0 .. 7 |->
                                    WithFlag(vic.sprites[n], r, Bit(v, n) = 1)]]
                    /\ VicRead(w, r) = v

\* C17 witness: after another register was written, 0xa5 was written to ME
\* and read back as 0xa5; sprite 0 is enabled and sprite 1 is not.
C17_Witness ==
    /\ last = [reg |-> ME, value |-> 165]
    /\ rd = [reg |-> ME, value |-> 165]
    /\ nwrites = MaxWrites
    /\ vic.sprites[0].enabled /\ ~vic.sprites[1].enabled

(***************************************************************************)
(* Further properties of the Datassette, checked under DatassetteSpec.     *)
(***************************************************************************)
\* C18, in every state: the counters of the current pulse satisfy
\* 0 <= low_cycles <= remaining_cycles.
C18_CountersInRange ==
    /\ current_pulse.low_cycles >= 0
    /\ current_pulse.low_cycles <= current_pulse.remaining_cycles

\* C18, the steps: clock() either leaves the pulse as it is, or installs the
\* zero-length pulse it read, or advances by one cycle a pulse that is not
\* done (the one in flight, or the one it has just read); every other
\* operation leaves the pulse alone or, for reset(), replaces it by a done one.
C18_AdvanceStep ==
    /\ op' = "clock" =>
            LET next == IF tape.pos < Len(tape.pulses)
                        THEN PulseNew(tape.pulses[tape.pos + 1], DUTY_CYCLE)
                        ELSE current_pulse
            IN  \/ current_pulse' = current_pulse
                \/ /\ ~PulseIsDone(current_pulse)
                   /\ current_pulse' = PulseAdvance(current_pulse)
                \/ /\ PulseIsDone(current_pulse) /\ PulseIsDone(next)
                   /\ current_pulse' = next
                \/ /\ PulseIsDone(current_pulse) /\ ~PulseIsDone(next)
                   /\ current_pulse' = PulseAdvance(next)
    /\ op' # "clock" =>
            \/ current_pulse' = current_pulse
            \/ op' = "reset" /\ current_pulse' = PulseNew(0, DUTY_CYCLE)

\* C18: under every interleaving of attach, detach, play, stop, reset, clock
\* and motor-bit changes, 0 <= low_cycles <= remaining_cycles, and advance()
\* is called only on a pulse that is not done, so no counter passes below 0.
C18_PulseCounters == []C18_CountersInRange /\ [][C18_AdvanceStep]_vars

\* C18 witness: the last cycle of the last pulse of a two-pulse tape has been
\* consumed: both counters are 0 and the device is still playing, so the next
\* clock() finds the pulse done.
C18_Witness ==
    /\ op = "clock"
    /\ playing /\ MotorBit = 0
    /\ Len(tape.pulses) = 2 /\ tape.pos = 2
    /\ tape.pulses[2] = 3
    /\ current_pulse = [low_cycles |-> 0, remaining_cycles |-> 0]

(***************************************************************************)
(* Termination of a playback, checked under PlaybackSpec.                  *)
(***************************************************************************)
\* the cycles still to be played: those of the pulse in flight and of the
\* pulses left on the tape
RECURSIVE CyclesFrom(_, _)
CyclesFrom(pulses, pos) ==
    IF pos >= Len(pulses) THEN 0 ELSE pulses[pos + 1] + CyclesFrom(pulses, pos + 1)

CyclesLeft == current_pulse.remaining_cycles + CyclesFrom(tape.pulses, tape.pos)

\* the entries left on the tape
EntriesLeft == Len(tape.pulses) - tape.pos

\* the device is playing a tape with the motor on
Rolling == playing /\ tape.attached /\ MotorBit = 0

\* C19, the step: a clock() call made while the device plays with the motor
\* on either consumes exactly one cycle (of the pulse in flight, or of the
\* pulse it reads in that call), or consumes a zero-length entry of the tape,
\* or finds the tape at its end and stops the device.
C19_ClockConsumes ==
    (op' = "clock" /\ Rolling) =>
        \/ /\ CyclesLeft' = CyclesLeft - 1
           /\ EntriesLeft' \in {EntriesLeft, EntriesLeft - 1}
           /\ playing'
        \/ /\ CyclesLeft' = CyclesLeft
           /\ EntriesLeft' = EntriesLeft - 1
           /\ PulseIsDone(current_pulse) /\ tape.pulses[tape.pos + 1] = 0
           /\ playing'
        \/ /\ PulseIsDone(current_pulse) /\ EntriesLeft = 0
           /\ ~playing'
           /\ tape' = tape /\ current_pulse' = current_pulse

\* C19, the end: from a state where the device plays with the motor on, with
\* clock() called on every cycle and nothing else called, playing becomes
\* false.
C19_Stops == Rolling ~> ~playing

\* C19: a playback terminates: every clock() call consumes one cycle or one
\* entry of the tape, and the device stops itself at the end of the tape.
C19_PlaybackTerminates == [][C19_ClockConsumes]_vars /\ C19_Stops

\* C19 witness: a tape of a zero-length pulse and a pulse of 3 cycles was
\* played with the motor on through both entries, and the clock() call after
\* the last cycle stopped the device.
C19_Witness ==
    /\ op = "clock"
    /\ tape.pulses = <<0, 3>> /\ tape.pos = 2
    /\ run.phase = "ended" /\ run.calls = 5
    /\ ~playing /\ MotorBit = 0
    /\ CyclesLeft = 0

(***************************************************************************)
(* The flag pin, checked under DatassetteSpec.                             *)
(***************************************************************************)
\* the pulse a clock() call has in hand once it is past the read: the pulse
\* in flight, or the one read from the tape when that one is done
PulseInHand ==
    IF ~PulseIsDone(current_pulse) THEN current_pulse
    ELSE IF tape.pos < Len(tape.pulses)
         THEN PulseNew(tape.pulses[tape.pos + 1], DUTY_CYCLE)
         ELSE current_pulse

\* C20, the step: no operation but clock() changes the flag pin; a clock()
\* call that is gated off (playing clear, motor off or no tape), or that has
\* a done pulse in hand (a zero-length pulse read, or the end of the tape),
\* leaves the pin as it was; any other clock() call advances the pulse in
\* hand and sets the pin to the level advance() returned.
C20_FlagStep ==
    /\ op' # "clock" => cia_flag' = cia_flag
    /\ op' = "clock" =>
            IF ~Rolling \/ PulseIsDone(PulseInHand)
            THEN cia_flag' = cia_flag
            ELSE /\ cia_flag' = PulseLevel(PulseInHand)
                 /\ current_pulse' = PulseAdvance(PulseInHand)

\* C20: the flag pin is driven only by the advance of a pulse inside clock();
\* attach, detach, play, stop and reset leave it at its level.
C20_FlagDrivenByAdvance == [][C20_FlagStep]_vars

\* C20 witness: reset() was called after the playback of a one-pulse tape had
\* driven the pin low and then high; the pin is still high.
C20_Witness ==
    /\ op = "reset"
    /\ replay = "reset_mid"
    /\ Len(tape.pulses) = 1 /\ tape.pulses[1] = 3
    /\ cia_flag

(***************************************************************************)
(* Registers do not leak into each other, checked under VicSpec.           *)
(***************************************************************************)
\* one address for each register, and two of the ignored addresses
LiveAndIgnored == (0 .. 47) \cup {63}

\* a step is a call of read
ReadAny == nwrites' = nwrites /\ rd' # rd

\* C21, the steps: a read made of register r' returns the same after a write
\* to another register r, and a read(r) call changes nothing of the register
\* bank.
C21_NoLeakStep ==
    /\ (WroteAny /\ rd # NoRead /\ rd.reg # last'.reg) =>
            VicRead(vic', rd.reg) = rd.value
    /\ ReadAny => UNCHANGED <<vic, panicked>>

\* C21, in every register bank that fewer than MaxWrites writes have reached:
\* for every address r and for v = 0x00 and v = 0xff (between them every bit
\* of the register is changed), write(r, v) leaves read(r') as it was for
\* every other address r'.
C21_NoLeakInPlace ==
    (rd = NoRead /\ nwrites < MaxWrites) =>
        \A before \in {[q \in LiveAndIgnored |-> VicRead(vic, q)]} :
            \A r \in LiveAndIgnored, v \in {0, 255} :
                \A w \in {VicWrite(vic, r, v)} :
                    \A q \in LiveAndIgnored \ {r} : VicRead(w, q) = before[q]

\* C21: a write to one register address leaves what every other address
\* reads unchanged, and a read changes nothing.
C21_NoRegisterLeak == [][C21_NoLeakStep]_vars /\ []C21_NoLeakInPlace

\* C21 witness: CR2 was written with MCM set, then CR1 was written, and
\* read(CR2) still returns MCM set.
C21_Witness ==
    /\ CR2 \in DOMAIN shadow /\ shadow[CR2] = 90
    /\ last = [reg |-> CR1, value |-> 165]
    /\ rd = [reg |-> CR2, value |-> 250]


\* ---------------------------------------------------------------------------
\* C22  Switch sense mirrors the playing flag
\* ---------------------------------------------------------------------------

\* the switch-sense input bit of the CPU port, as written by set_input_bit
SenseInput == bit_test(cpu_io_port.input, CassetteSwitch)

\* C22: the port starts with input bit 4 high and only the Datassette writes
\* the input latch (the CPU action stores to the output latch); in every state
\* reached by attach, detach, play, stop, reset and clock, the end-of-tape stop
\* inside clock included, the switch-sense input bit is low exactly when
\* playing is true.
C22_SenseMirrorsPlaying == (~SenseInput) <=> playing

\* a clock() has just run off the end of the tape: the playback it ended had
\* the sense bit low, and the stop inside clock() has put it back high
C22_Witness ==
    /\ op = "clock"
    /\ run.phase = "ended"
    /\ ~playing
    /\ SenseInput

\* ---------------------------------------------------------------------------
\* C23  Playing implies a tape is attached
\* ---------------------------------------------------------------------------

\* C23: in every state reached by attach, detach, play, stop, reset and
\* clock, playing = true implies a tape is attached, and so does is_playing().
C23_PlayingHasTape ==
    /\ playing => tape.attached
    /\ IsPlaying => tape.attached

\* play() has set the flag with a tape present and the motor is on
C23_Witness ==
    /\ op \in {"play", "motor"}
    /\ IsPlaying
    /\ tape.attached


\* ---------------------------------------------------------------------------
\* C24  stop(), detach() and attach() keep the pulse in flight
\* ---------------------------------------------------------------------------

\* the pulse clock() installs from the tape, before its first cycle is driven
InstalledPulse == PulseNew(TapeReadPulse(tape), DUTY_CYCLE)

\* stop, detach and attach (and play) leave current_pulse as it is; a step
\* that changes it is a reset, which empties it, or a clock that advances it
\* or, having found it done, installs the next pulse of the tape and drives
\* that pulse's first cycle
C24_PulseStep ==
    /\ op' \in {"stop", "detach", "attach", "play"} => current_pulse' = current_pulse
    /\ current_pulse' # current_pulse =>
            \/ op' = "reset" /\ current_pulse' = PulseNew(0, DUTY_CYCLE)
            \/ /\ op' = "clock"
               /\ ~PulseIsDone(current_pulse)
               /\ current_pulse' = PulseAdvance(current_pulse)
            \/ /\ op' = "clock"
               /\ PulseIsDone(current_pulse)
               /\ tape.attached /\ TapeReadPulse(tape) # Panic
               /\ tape' = TapeAfterRead(tape)
               /\ current_pulse' = IF PulseIsDone(InstalledPulse) THEN InstalledPulse
                                   ELSE PulseAdvance(InstalledPulse)

\* the first clock() with the motor on after stop(); play(), or after
\* detach(); attach(t); play(), where the stop or detach found a pulse in
\* flight: it drives the next cycle of that pulse and does not read the tape;
\* and so does every later clock() until that pulse is done
C24_ResumeStep ==
    (/\ resume \in {"play_same", "driven_same", "play_new", "driven_new"}
     /\ op' = "clock" /\ MotorBit = 0 /\ ~PulseIsDone(current_pulse)) =>
        /\ current_pulse' = PulseAdvance(current_pulse)
        /\ cia_flag' = PulseLevel(current_pulse)
        /\ tape' = tape
        /\ UNCHANGED <<playing, cpu_io_port>>

\* after play() the pulse left by the stop or detach is still in flight and
\* the device is playing; after detach(); attach(t); play() the tape t has not
\* been read while cycles of the old pulse are being driven
C24_KeptInFlight ==
    /\ resume \in {"stopped", "detached", "attached", "play_same", "play_new"} =>
            ~PulseIsDone(current_pulse)
    /\ resume \in {"play_same", "play_new"} => playing /\ tape.attached
    /\ resume \in {"attached", "play_new", "driven_new"} => tape.attached /\ tape.pos = 0

\* C24: stop(), detach() and attach() leave current_pulse unchanged, only
\* reset() and the installation of a new pulse inside clock() change its
\* counters other than by advance; after stop(); play() the next clock()
\* continues the interrupted pulse, and after detach() mid-pulse, attach(t) and
\* play(), the cycles left of the old pulse are driven onto the flag pin before
\* t is read for the first time.
C24_KeepsPulseInFlight ==
    /\ [][C24_PulseStep]_vars
    /\ [][C24_ResumeStep]_vars
    /\ []C24_KeptInFlight

\* detach() found cycles of a pulse still to come, a tape was attached
\* and played, and clock() has driven the last cycle of the old pulse without
\* having read the new tape
C24_Witness ==
    /\ resume = "driven_new"
    /\ op = "clock"
    /\ PulseIsDone(current_pulse)
    /\ cia_flag
    /\ tape.pos = 0
    /\ tape.pulses # <<>>


\* ---------------------------------------------------------------------------
\* C25  One falling edge per pulse
\* ---------------------------------------------------------------------------

\* a clock() step that drives a cycle onto the flag pin
DrivesCycle == op' = "clock" /\ current_pulse' # current_pulse

\* a clock() step that reads a pulse from the tape and drives its first cycle
DrivesFirstCycle ==
    /\ DrivesCycle
    /\ PulseIsDone(current_pulse)
    /\ tape' = TapeAfterRead(tape)

\* the length of the pulse a first cycle belongs to, and of the pulse before
\* it on the tape (0 for the first pulse of the tape)
LengthRead == TapeReadPulse(tape)

LengthBefore == IF tape.pos >= 1 THEN tape.pulses[tape.pos] ELSE 0

\* within a pulse the level never goes from high to low, and the cycle that
\* completes a pulse is high
C25_WithinPulse ==
    /\ (DrivesCycle /\ ~PulseIsDone(current_pulse)) => (cia_flag => cia_flag')
    /\ (DrivesCycle /\ PulseIsDone(current_pulse')) => cia_flag'

\* the flag pin goes from high to low only on the first cycle of a pulse
C25_EdgeOnFirstCycle == (cia_flag /\ ~cia_flag') => DrivesFirstCycle

\* a pulse of length 1 has no falling edge
C25_NoneForOne == (DrivesFirstCycle /\ LengthRead = 1) => cia_flag'

=============================================================================
